---- MODULE Spec2Model ----
(***************************************************************************)
(* Model of crates/sshx-server/src/lib.rs: make_server, the hybrid         *)
(* HTTP/gRPC server.  One hyper server owns the listener; every request is *)
(* steered (tower::steer::Steer) to one of three boxed services            *)
(* [http_service, grpc_service, tls_redirect_service]; the server runs     *)
(* under with_graceful_shutdown(signal).                                   *)
(*                                                                         *)
(* Text is modelled as sequences of one-character strings wherever the     *)
(* code looks inside it or concatenates it (the Host value, the URI, the   *)
(* Location); header values that are only compared for byte equality       *)
(* (x-forwarded-proto, content-type) are plain strings.                    *)
(*                                                                         *)
(* Granularity: one poll of a future is one step.  A connection is hyper's *)
(* connection future (HTTP/1 semantics, one request in flight at a time).  *)
(***************************************************************************)
EXTENDS Naturals, Sequences, FiniteSets

VARIABLES conns, inbox, store, phase, signal, triggers, result

vars == <<conns, inbox, store, phase, signal, triggers, result>>

----------------------------------------------------------------------------
(* Bounds of the model *)

\* connections the listener may accept in one run
MaxConns == 2
\* values one header name may carry in one request
MaxHeaderValues == 2
\* times the external shutdown event may happen
MaxTriggers == 2

Conns == 1..MaxConns

----------------------------------------------------------------------------
(* Option and Result *)

None == <<>>
Some(x) == <<x>>
IsSome(o) == o # <<>>
Unwrap(o) == o[1]

Ok(v) == [ok |-> TRUE, val |-> v]
Err(e) == [ok |-> FALSE, err |-> e]

----------------------------------------------------------------------------
(* Text *)

\* a byte outside visible ASCII
NonAscii == "<80>"

HTTPS == <<"h", "t", "t", "p", "s">>

HostExample == <<"e", "x", "a", "m", "p", "l", "e", ".", "c", "o", "m">>
HostSlash == <<"a", "/", "b">>
HostNonAscii == <<"a", NonAscii>>
HostEmpty == <<>>

HostValues == {HostExample, HostSlash, HostNonAscii, HostEmpty}
XfpValues == {"http", "HTTP"}
CtValues == {"application/grpc", "application/grpc+proto"}

RECURSIVE SeqsUpTo(_, _)
SeqsUpTo(S, n) ==
    IF n = 0 THEN {<<>>}
    ELSE LET shorter == SeqsUpTo(S, n - 1)
         IN shorter \cup {Append(s, x) : s \in shorter, x \in S}

----------------------------------------------------------------------------
(* Requests *)

PathAB == <<"/", "a", "/", "b">>
QueryQ1 == <<"q", "=", "1">>
PathRoot == <<"/">>
AuthOrg == <<"o", ".", "r", "g">>

\* request targets: origin-form with and without a query, absolute-form,
\* authority-form (no path)
UriOriginQuery ==
    [scheme |-> None, authority |-> None,
     path_and_query |-> Some([path |-> PathAB, query |-> Some(QueryQ1)])]
UriOriginRoot ==
    [scheme |-> None, authority |-> None,
     path_and_query |-> Some([path |-> PathRoot, query |-> None])]
UriAbsolute ==
    [scheme |-> Some(<<"h", "t", "t", "p">>), authority |-> Some(AuthOrg),
     path_and_query |-> Some([path |-> PathAB, query |-> Some(QueryQ1)])]
UriAuthority ==
    [scheme |-> None, authority |-> Some(AuthOrg), path_and_query |-> None]

Uris == {UriOriginQuery, UriOriginRoot, UriAbsolute, UriAuthority}

Request(xfp, ct, host, uri) ==
    [headers |-> [xfp |-> xfp, ct |-> ct, host |-> host], uri |-> uri]

AllRequests ==
    {Request(x, c, h, u) :
        x \in SeqsUpTo(XfpValues, MaxHeaderValues),
        c \in SeqsUpTo(CtValues, MaxHeaderValues),
        h \in SeqsUpTo(HostValues, MaxHeaderValues),
        u \in Uris}

\* the requests the several-connection specification draws from: one for
\* each service, and one on which the redirect fails
ServedRequests ==
    {Request(<<>>, <<>>, <<HostExample>>, UriOriginRoot),
     Request(<<>>, <<"application/grpc">>, <<HostExample>>, UriOriginRoot),
     Request(<<"http">>, <<"application/grpc">>, <<HostExample>>, UriOriginQuery),
     Request(<<"http">>, <<>>, <<>>, UriOriginRoot)}

\* the requests of the header specification: a wider choice of values of the
\* two headers the picker reads, on one Host and one URI
XfpWide == {"http", "HTTP", "https", "http "}
CtWide ==
    {"application/grpc", "application/grpc+proto",
     "application/grpc; charset=utf-8", "text/html"}

HeaderRequests ==
    {Request(x, c, <<HostExample>>, UriOriginQuery) :
        x \in SeqsUpTo(XfpWide, MaxHeaderValues),
        c \in SeqsUpTo(CtWide, MaxHeaderValues)}

\* the requests of the two-request specification: each combination of the
\* two headers the picker reads comes with two different Hosts and URIs
PairRequests ==
    {Request(x, c, t[1], t[2]) :
        x \in {<<>>, <<"http">>},
        c \in {<<>>, <<"application/grpc">>},
        t \in {<< <<HostExample>>, UriOriginRoot >>, << <<>>, UriOriginQuery >>}}

\* HeaderMap::get: the first value of the name, if any
HeaderGet(values) == IF values = <<>> THEN None ELSE Some(Head(values))

----------------------------------------------------------------------------
(* The three services, in the order of the array given to Steer::new *)

services ==
    [i \in 0..2 |->
        CASE i = 0 -> "http_service"
          [] i = 1 -> "grpc_service"
          [] i = 2 -> "tls_redirect_service"]

\* content-type is consulted before x-forwarded-proto
PickerContentTypeFirst(req) ==
    LET proto == HeaderGet(req.headers.xfp)
        content == HeaderGet(req.headers.ct)
    IN IF IsSome(content) /\ Unwrap(content) = "application/grpc" THEN 1
       ELSE IF IsSome(proto) /\ Unwrap(proto) = "http" THEN 2
       ELSE 0

\* the guard on the value of x-forwarded-proto is dropped
PickerAnyProto(req) ==
    LET proto == HeaderGet(req.headers.xfp)
        content == HeaderGet(req.headers.ct)
    IN IF IsSome(proto) THEN 2
       ELSE IF IsSome(content) /\ Unwrap(content) = "application/grpc" THEN 1
       ELSE 0

\* content-type is matched by prefix
PickerPrefixGrpc(req) ==
    LET proto == HeaderGet(req.headers.xfp)
        content == HeaderGet(req.headers.ct)
    IN IF IsSome(proto) /\ Unwrap(proto) = "http" THEN 2
       ELSE IF IsSome(content)
               /\ Unwrap(content) \in {"application/grpc", "application/grpc+proto"}
            THEN 1
       ELSE 0

\* the default arm is off by one
PickerDefaultOutOfRange(req) ==
    LET proto == HeaderGet(req.headers.xfp)
        content == HeaderGet(req.headers.ct)
    IN IF IsSome(proto) /\ Unwrap(proto) = "http" THEN 2
       ELSE IF IsSome(content) /\ Unwrap(content) = "application/grpc" THEN 1
       ELSE 3

\* ASCII lower case of the header values of the model
Lower(v) == IF v = "HTTP" THEN "http" ELSE v

\* x-forwarded-proto is compared without regard to case
PickerIgnoreCase(req) ==
    LET proto == HeaderGet(req.headers.xfp)
        content == HeaderGet(req.headers.ct)
    IN IF IsSome(proto) /\ Lower(Unwrap(proto)) = "http" THEN 2
       ELSE IF IsSome(content) /\ Unwrap(content) = "application/grpc" THEN 1
       ELSE 0

\* any content-type selects the RPC service
PickerAnyContentType(req) ==
    LET proto == HeaderGet(req.headers.xfp)
        content == HeaderGet(req.headers.ct)
    IN IF IsSome(proto) /\ Unwrap(proto) = "http" THEN 2
       ELSE IF IsSome(content) THEN 1
       ELSE 0

\* once the shutdown signal has resolved, every request goes to the Web
\* service
PickerAfterSignal(req) ==
    LET proto == HeaderGet(req.headers.xfp)
        content == HeaderGet(req.headers.ct)
    IN IF signal # "pending" THEN 0
       ELSE IF IsSome(proto) /\ Unwrap(proto) = "http" THEN 2
       ELSE IF IsSome(content) /\ Unwrap(content) = "application/grpc" THEN 1
       ELSE 0

\* the picker closure of Steer::new: the index of the service to call
Picker(req) ==
    LET proto == HeaderGet(req.headers.xfp)
        content == HeaderGet(req.headers.ct)
    IN IF IsSome(proto) /\ Unwrap(proto) = "http" THEN 2
       ELSE IF IsSome(content) /\ Unwrap(content) = "application/grpc" THEN 1
       ELSE 0

----------------------------------------------------------------------------
(* tls_redirect_service *)

\* HeaderValue::to_str: fails on a byte that is not visible ASCII
ToStr(value) ==
    IF \E i \in 1..Len(value) : value[i] = NonAscii
    THEN Err("ToStrError")
    ELSE Ok(value)

Count(s, ch) == Cardinality({i \in 1..Len(s) : s[i] = ch})

\* str::parse::<Authority>: fails on the empty string, on a character that
\* ends or cannot be part of an authority, and on more than one colon
ParseAuthority(s) ==
    IF s = <<>> THEN Err("InvalidUri(Empty)")
    ELSE IF \E i \in 1..Len(s) : s[i] \in {"/", "?", "#", " "}
         THEN Err("InvalidUri(InvalidUriChar)")
    ELSE IF Count(s, ":") > 1 THEN Err("InvalidUri(InvalidAuthority)")
    ELSE Ok(s)

\* Uri::from_parts (parts.try_into()): with a scheme, the authority and the
\* path are required
UriFromParts(parts) ==
    IF IsSome(parts.scheme)
    THEN IF ~IsSome(parts.authority) THEN Err("InvalidUriParts(AuthorityMissing)")
         ELSE IF ~IsSome(parts.path_and_query)
              THEN Err("InvalidUriParts(PathAndQueryMissing)")
         ELSE Ok(parts)
    ELSE IF IsSome(parts.authority) /\ IsSome(parts.path_and_query)
         THEN Err("InvalidUriParts(SchemeMissing)")
    ELSE Ok(parts)

\* Display for Uri, as used for the Location value
UriToString(uri) ==
    (IF IsSome(uri.scheme) THEN Unwrap(uri.scheme) \o <<":", "/", "/">> ELSE <<>>)
    \o (IF IsSome(uri.authority) THEN Unwrap(uri.authority) ELSE <<>>)
    \o (IF IsSome(uri.path_and_query)
        THEN LET pq == Unwrap(uri.path_and_query)
             IN pq.path
                \o (IF IsSome(pq.query) THEN <<"?">> \o Unwrap(pq.query) ELSE <<>>)
        ELSE <<>>)

\* StatusCode::PERMANENT_REDIRECT, the status of Redirect::permanent
PERMANENT_REDIRECT == 308

\* Redirect::permanent(uri).oneshot(req): cannot fail
RedirectPermanent(uri) ==
    [status |-> PERMANENT_REDIRECT, location |-> Some(UriToString(uri))]

\* the query is dropped from the redirect target
tls_redirect_service_drops_query(req) ==
    LET host == HeaderGet(req.headers.host)
    IN IF ~IsSome(host) THEN Err("tls redirect missing host")
       ELSE LET str == ToStr(Unwrap(host))
            IN IF ~str.ok THEN str
               ELSE LET authority == ParseAuthority(str.val)
                    IN IF ~authority.ok THEN authority
                       ELSE LET parts ==
                                    [scheme |-> Some(HTTPS),
                                     authority |-> Some(authority.val),
                                     path_and_query |->
                                        IF IsSome(req.uri.path_and_query)
                                        THEN Some([Unwrap(req.uri.path_and_query)
                                                     EXCEPT !.query = None])
                                        ELSE None]
                                uri == UriFromParts(parts)
                            IN IF ~uri.ok THEN uri
                               ELSE Ok(RedirectPermanent(uri.val))

\* a missing Host is replaced by a default authority
tls_redirect_service_default_host(req) ==
    LET host == HeaderGet(req.headers.host)
        value == IF IsSome(host) THEN Unwrap(host)
                 ELSE <<"l", "o", "c", "a", "l", "h", "o", "s", "t">>
    IN LET str == ToStr(value)
       IN IF ~str.ok THEN str
          ELSE LET authority == ParseAuthority(str.val)
               IN IF ~authority.ok THEN authority
                  ELSE LET parts ==
                               [req.uri EXCEPT
                                   !.scheme = Some(HTTPS),
                                   !.authority = Some(authority.val)]
                           uri == UriFromParts(parts)
                       IN IF ~uri.ok THEN uri
                          ELSE Ok(RedirectPermanent(uri.val))

\* the closure given to service_fn: Ok(response) or Err(error)
tls_redirect_service(req) ==
    LET host == HeaderGet(req.headers.host)
    IN IF ~IsSome(host) THEN Err("tls redirect missing host")
       ELSE LET str == ToStr(Unwrap(host))
            IN IF ~str.ok THEN str
               ELSE LET authority == ParseAuthority(str.val)
                    IN IF ~authority.ok THEN authority
                       ELSE LET parts ==
                                    [req.uri EXCEPT
                                        !.scheme = Some(HTTPS),
                                        !.authority = Some(authority.val)]
                                uri == UriFromParts(parts)
                            IN IF ~uri.ok THEN uri
                               ELSE Ok(RedirectPermanent(uri.val))

\* the web and RPC collaborators behind their adapters: a response, or an
\* error boxed by map_err when the environment injects a fault
http_service(req, fault) ==
    IF fault THEN Err("BoxError") ELSE Ok([status |-> 200, location |-> None])

grpc_service(req, fault) ==
    IF fault THEN Err("BoxError") ELSE Ok([status |-> 200, location |-> None])

----------------------------------------------------------------------------
(* State *)

\* a connection slot: state is "none" (not accepted), "idle" (accepted, no
\* request in flight), "busy" (a request is with its service) or "closed";
\* req, handledBy, out and sent describe the latest request: the services
\* that were called with it, what the service returned, and the response
\* written to the connection
NoConn ==
    [state |-> "none", req |-> None, handledBy |-> {}, out |-> None, sent |-> None]

accepted == {c \in Conns : conns[c].state # "none"}
inFlight == {c \in Conns : conns[c].state \in {"idle", "busy"}}

Init ==
    /\ conns = [c \in Conns |-> NoConn]
    /\ inbox = [c \in Conns |-> None]
    /\ store = {}
    /\ phase = "Accepting"
    /\ signal = "pending"
    /\ triggers = 0
    /\ result = "running"

----------------------------------------------------------------------------
(* The accept loop and the connections: builder.serve(make_svc) *)

\* the listener keeps accepting after the signal has resolved
AcceptIgnoringSignal(c) ==
    /\ phase # "Stopped"
    /\ conns[c].state = "none"
    /\ \A d \in Conns : d < c => conns[d].state # "none"
    /\ conns' = [conns EXCEPT ![c].state = "idle"]
    /\ UNCHANGED <<store, inbox, phase, signal, triggers, result>>

\* one accepted connection: make_svc hands it a clone of svc.  The graceful
\* future polls the signal before the listener, so nothing is accepted once
\* the signal has resolved.
Accept(c) ==
    /\ phase = "Accepting"
    /\ signal = "pending"
    /\ conns[c].state = "none"
    /\ \A d \in Conns : d < c => conns[d].state # "none"
    /\ conns' = [conns EXCEPT ![c].state = "idle"]
    /\ UNCHANGED <<store, inbox, phase, signal, triggers, result>>

\* the client of connection c sends a request
Send(c, req) ==
    /\ conns[c].state = "idle"
    /\ inbox[c] = None
    /\ inbox' = [inbox EXCEPT ![c] = Some(req)]
    /\ UNCHANGED <<store, conns, phase, signal, triggers, result>>

\* the dispatcher records every request it steers in the session store
SteerCallTouchesStore(c) ==
    /\ phase = "Accepting"
    /\ conns[c].state = "idle"
    /\ IsSome(inbox[c])
    /\ LET req == Unwrap(inbox[c])
           idx == Picker(req)
       IN conns' = [conns EXCEPT ![c] =
                       [state |-> "busy",
                        req |-> Some(req),
                        handledBy |-> IF idx \in DOMAIN services
                                      THEN {services[idx]} ELSE {},
                        out |-> None,
                        sent |-> None]]
    /\ inbox' = [inbox EXCEPT ![c] = None]
    /\ store' = store \cup {"s1"}
    /\ UNCHANGED <<phase, signal, triggers, result>>

\* Steer::call on the request read from connection c: pick the index, call
\* that one service (an index outside the array is a panic: no service).
\* A connection that was told to drain while idle reads no further request.
SteerCall(c) ==
    /\ phase = "Accepting"
    /\ conns[c].state = "idle"
    /\ IsSome(inbox[c])
    /\ LET req == Unwrap(inbox[c])
           idx == Picker(req)
       IN conns' = [conns EXCEPT ![c] =
                       [state |-> "busy",
                        req |-> Some(req),
                        handledBy |-> IF idx \in DOMAIN services
                                      THEN {services[idx]} ELSE {},
                        out |-> None,
                        sent |-> None]]
    /\ inbox' = [inbox EXCEPT ![c] = None]
    /\ UNCHANGED <<store, phase, signal, triggers, result>>

\* what a collaborator does to the session store when it writes: the one
\* session of the model is opened, or closed if it was open
SessionWrite(st) == IF "s1" \in st THEN st \ {"s1"} ELSE st \cup {"s1"}

\* the store after the service of connection record conn has run: only
\* http_service and grpc_service hold a clone of the store; the redirect
\* closure and the picker capture nothing
StoreAfter(conn, write) ==
    IF write /\ conn.handledBy \in {{"http_service"}, {"grpc_service"}}
    THEN SessionWrite(store)
    ELSE store

\* what the called service returns for the request of connection record conn
ServiceOutput(conn, fault) ==
    LET req == Unwrap(conn.req)
    IN IF conn.handledBy = {"tls_redirect_service"} THEN tls_redirect_service(req)
       ELSE IF conn.handledBy = {"grpc_service"} THEN grpc_service(req, fault)
       ELSE IF conn.handledBy = {"http_service"} THEN http_service(req, fault)
       ELSE Err("panic")

\* an error of one service ends the whole server with an error
ServiceCompleteAbortsServer(c, fault) ==
    /\ conns[c].state = "busy"
    /\ LET out == ServiceOutput(conns[c], fault)
       IN IF out.ok
          THEN /\ conns' = [conns EXCEPT ![c] =
                               [@ EXCEPT !.out = Some(out),
                                         !.sent = Some(out.val),
                                         !.state = IF phase = "Accepting"
                                                   THEN "idle" ELSE "closed"]]
               /\ UNCHANGED <<store, inbox, phase, signal, triggers, result>>
          ELSE /\ store' = store
               /\ conns' = [d \in Conns |->
                               IF d = c
                               THEN [conns[d] EXCEPT !.out = Some(out),
                                                     !.state = "closed"]
                               ELSE IF conns[d].state \in {"idle", "busy"}
                                    THEN [conns[d] EXCEPT !.state = "closed"]
                                    ELSE conns[d]]
               /\ phase' = "Stopped"
               /\ result' = "err"
               /\ UNCHANGED <<inbox, signal, triggers>>

\* the service future of connection c resolves.  Ok(response): hyper writes
\* it and keeps the connection, unless the server is draining.  Err(error):
\* hyper writes no response and ends this connection; its task logs the
\* error, the server goes on.
ServiceComplete(c, fault) ==
    /\ conns[c].state = "busy"
    /\ LET out == ServiceOutput(conns[c], fault)
       IN conns' = [conns EXCEPT ![c] =
                       [@ EXCEPT !.out = Some(out),
                                 !.sent = IF out.ok THEN Some(out.val) ELSE None,
                                 !.state = IF out.ok /\ phase = "Accepting"
                                           THEN "idle" ELSE "closed"]]
    /\ \E write \in BOOLEAN : store' = StoreAfter(conns[c], write)
    /\ UNCHANGED <<inbox, phase, signal, triggers, result>>

\* the handler of connection c panics: the panic unwinds the task of this
\* connection, which ends without a response; the runtime keeps the other
\* tasks.  Only the collaborators behind http_service and grpc_service can
\* panic: the redirect closure has no panicking path.
ServicePanic(c) ==
    /\ conns[c].state = "busy"
    /\ conns[c].handledBy \in {{"http_service"}, {"grpc_service"}}
    /\ conns' = [conns EXCEPT ![c] =
                    [@ EXCEPT !.out = Some(Err("panic")),
                              !.sent = None,
                              !.state = "closed"]]
    /\ \E write \in BOOLEAN : store' = StoreAfter(conns[c], write)
    /\ UNCHANGED <<inbox, phase, signal, triggers, result>>

\* an idle connection ends: the client closes it, or the server is draining
\* and keep-alive is off.  What was sent on it and not yet read is dropped
\* with the socket.
CloseIdle(c) ==
    /\ conns[c].state = "idle"
    /\ conns' = [conns EXCEPT ![c].state = "closed"]
    /\ inbox' = [inbox EXCEPT ![c] = None]
    /\ UNCHANGED <<store, phase, signal, triggers, result>>

----------------------------------------------------------------------------
(* with_graceful_shutdown(signal) *)

\* a second event forces the server to stop at once
FireSignalForcesStop ==
    /\ triggers < MaxTriggers
    /\ triggers' = triggers + 1
    /\ IF triggers = 0
       THEN /\ signal' = IF signal = "pending" THEN "ready" ELSE signal
            /\ UNCHANGED <<store, conns, inbox, phase, result>>
       ELSE /\ phase' = "Stopped"
            /\ result' = "ok"
            /\ conns' = [d \in Conns |->
                            IF conns[d].state \in {"idle", "busy"}
                            THEN [conns[d] EXCEPT !.state = "closed"]
                            ELSE conns[d]]
            /\ UNCHANGED <<store, inbox, signal>>

\* the external shutdown event happens.  signal is a future with Output = ():
\* the first event makes it ready; it is polled to completion once and then
\* dropped, so a later event finds nothing to wake.
FireSignal ==
    /\ triggers < MaxTriggers
    /\ triggers' = triggers + 1
    /\ signal' = IF signal = "pending" THEN "ready" ELSE signal
    /\ UNCHANGED <<store, conns, inbox, phase, result>>

\* the drain cancels the requests that are in flight
BeginDrainCancels ==
    /\ phase = "Accepting"
    /\ signal = "ready"
    /\ phase' = "Draining"
    /\ signal' = "consumed"
    /\ conns' = [d \in Conns |->
                    IF conns[d].state \in {"idle", "busy"}
                    THEN [conns[d] EXCEPT !.state = "closed"]
                    ELSE conns[d]]
    /\ UNCHANGED <<store, inbox, triggers, result>>

\* the graceful future polls the signal and finds it ready: the listener is
\* dropped and every connection is told to finish (keep-alive off)
BeginDrain ==
    /\ phase = "Accepting"
    /\ signal = "ready"
    /\ phase' = "Draining"
    /\ signal' = "consumed"
    /\ UNCHANGED <<store, conns, inbox, triggers, result>>

\* the server stops as soon as it has no connection, signal or not
StopWhenIdle ==
    /\ phase \in {"Accepting", "Draining"}
    /\ inFlight = {}
    /\ phase' = "Stopped"
    /\ result' = "ok"
    /\ UNCHANGED <<store, conns, inbox, signal, triggers>>

\* a connection that failed keeps the server from stopping
StopBlockedByFailure ==
    /\ phase = "Draining"
    /\ inFlight = {}
    /\ \A c \in Conns : IsSome(conns[c].out) => Unwrap(conns[c].out).ok
    /\ phase' = "Stopped"
    /\ result' = "ok"
    /\ UNCHANGED <<store, conns, inbox, signal, triggers>>

\* every connection future has finished: the serve future resolves Ok(())
\* and make_server returns Ok(())
Stop ==
    /\ phase = "Draining"
    /\ inFlight = {}
    /\ phase' = "Stopped"
    /\ result' = "ok"
    /\ UNCHANGED <<store, conns, inbox, signal, triggers>>

----------------------------------------------------------------------------
(* Specifications *)

\* the server with several connections
Next ==
    \/ \E c \in Conns : Accept(c)
    \/ \E c \in Conns, req \in ServedRequests : Send(c, req)
    \/ \E c \in Conns : SteerCall(c)
    \/ \E c \in Conns, fault \in BOOLEAN : ServiceComplete(c, fault)
    \/ \E c \in Conns : ServicePanic(c)
    \/ \E c \in Conns : CloseIdle(c)
    \/ FireSignal
    \/ BeginDrain
    \/ Stop

Spec == Init /\ [][Next]_vars

\* make_server_bind: the server from the bind of its address on
InitBind ==
    /\ conns = [c \in Conns |-> NoConn]
    /\ inbox = [c \in Conns |-> None]
    /\ store = {}
    /\ phase = "Binding"
    /\ signal = "pending"
    /\ triggers = 0
    /\ result = "running"

\* the bind error is reported, and the server is started all the same
TryBindStartsAnyway(ok) ==
    /\ phase = "Binding"
    /\ phase' = "Accepting"
    /\ result' = IF ok THEN result ELSE "err"
    /\ UNCHANGED <<store, conns, inbox, signal, triggers>>

\* Server::try_bind(addr)?: with the listener, make_server starts; on an
\* error make_server_bind returns it and make_server is never called
TryBind(ok) ==
    /\ phase = "Binding"
    /\ IF ok
       THEN /\ phase' = "Accepting"
            /\ UNCHANGED result
       ELSE /\ phase' = "BindFailed"
            /\ result' = "err"
    /\ UNCHANGED <<store, conns, inbox, signal, triggers>>

NextBind ==
    \/ \E ok \in BOOLEAN : TryBind(ok)
    \/ Next

SpecBind == InitBind /\ [][NextBind]_vars

\* the requests of the drain specification: one that is answered and one on
\* which the service fails
DrainRequests ==
    {Request(<<>>, <<>>, <<HostExample>>, UriOriginRoot),
     Request(<<"http">>, <<>>, <<>>, UriOriginRoot)}

NextDrain ==
    \/ \E c \in Conns : Accept(c)
    \/ \E c \in Conns, req \in DrainRequests : Send(c, req)
    \/ \E c \in Conns : SteerCall(c)
    \/ \E c \in Conns, fault \in BOOLEAN : ServiceComplete(c, fault)
    \/ \E c \in Conns : ServicePanic(c)
    \/ \E c \in Conns : CloseIdle(c)
    \/ FireSignal
    \/ BeginDrain
    \/ Stop

\* the request in flight on connection c comes to an end
Finish(c) == (\E fault \in BOOLEAN : ServiceComplete(c, fault)) \/ ServicePanic(c)

\* the server under the scheduling the runtime gives it: the graceful future
\* is polled when the signal wakes it and when the last connection ends, and
\* a draining connection that is idle closes; that every request in flight
\* comes to an end is the assumption of the drain
SpecDrain ==
    /\ Init
    /\ [][NextDrain]_vars
    /\ WF_vars(BeginDrain)
    /\ WF_vars(Stop)
    /\ \A c \in Conns : WF_vars(Finish(c))
    /\ \A c \in Conns : WF_vars(phase = "Draining" /\ CloseIdle(c))

\* one connection that is sent one request, any of AllRequests: the
\* classifier and the redirect responder on all their inputs
InitRequests ==
    /\ conns = [c \in Conns |-> NoConn]
    /\ \E req \in AllRequests :
          inbox = [c \in Conns |-> IF c = 1 THEN Some(req) ELSE None]
    /\ store = {}
    /\ phase = "Accepting"
    /\ signal = "pending"
    /\ triggers = 0
    /\ result = "running"

NextRequests ==
    \/ Accept(1)
    \/ SteerCall(1)
    \/ \E fault \in BOOLEAN : ServiceComplete(1, fault)
    \/ ServicePanic(1)
    \/ CloseIdle(1)

SpecRequests == InitRequests /\ [][NextRequests]_vars

\* one connection that is sent one request of HeaderRequests
InitHeaders ==
    /\ conns = [c \in Conns |-> NoConn]
    /\ \E req \in HeaderRequests :
          inbox = [c \in Conns |-> IF c = 1 THEN Some(req) ELSE None]
    /\ store = {}
    /\ phase = "Accepting"
    /\ signal = "pending"
    /\ triggers = 0
    /\ result = "running"

SpecHeaders == InitHeaders /\ [][NextRequests]_vars

\* two connections that are sent one request of PairRequests each, served
\* in any order, before or after the shutdown signal
InitPairs ==
    /\ conns = [c \in Conns |-> NoConn]
    /\ \E r1, r2 \in PairRequests :
          inbox = [c \in Conns |->
                      IF c = 1 THEN Some(r1) ELSE IF c = 2 THEN Some(r2) ELSE None]
    /\ store = {}
    /\ phase = "Accepting"
    /\ signal = "pending"
    /\ triggers = 0
    /\ result = "running"

NextPairs ==
    \/ \E c \in Conns : Accept(c)
    \/ \E c \in Conns : SteerCall(c)
    \/ \E c \in Conns, fault \in BOOLEAN : ServiceComplete(c, fault)
    \/ \E c \in Conns : ServicePanic(c)
    \/ \E c \in Conns : CloseIdle(c)
    \/ FireSignal
    \/ BeginDrain
    \/ Stop

SpecPairs == InitPairs /\ [][NextPairs]_vars

----------------------------------------------------------------------------
(* Claims *)

\* the request that connection record k last handed to a service
ReqOf(k) == Unwrap(k.req)
\* the first value of a header is the value named val
FirstIs(values, val) == values # <<>> /\ values[1] = val

RedirectRule(req) == FirstIs(req.headers.xfp, "http")
RpcRule(req) == FirstIs(req.headers.ct, "application/grpc")

\* C1: a request whose x-forwarded-proto is "http" is given to the Redirect
\* service and to no other, whatever its content-type and other headers are.
C1_ForwardedHttpSelectsRedirect ==
    \A c \in Conns :
        (IsSome(conns[c].req) /\ RedirectRule(ReqOf(conns[c])))
            => conns[c].handledBy = {"tls_redirect_service"}

\* a request with x-forwarded-proto: http and content-type: application/grpc
\* was given to the Redirect service
C1_Witness ==
    \E c \in Conns :
        /\ IsSome(conns[c].req)
        /\ RedirectRule(ReqOf(conns[c]))
        /\ RpcRule(ReqOf(conns[c]))
        /\ conns[c].handledBy = {"tls_redirect_service"}

\* C2: a request that is not selected for Redirect and whose content-type is
\* "application/grpc" is given to the RPC service.
C2_GrpcSelectsRpc ==
    \A c \in Conns :
        (IsSome(conns[c].req)
            /\ ~RedirectRule(ReqOf(conns[c]))
            /\ RpcRule(ReqOf(conns[c])))
            => conns[c].handledBy = {"grpc_service"}

\* a gRPC request whose x-forwarded-proto is present with another value was
\* given to the RPC service
C2_Witness ==
    \E c \in Conns :
        /\ IsSome(conns[c].req)
        /\ FirstIs(ReqOf(conns[c]).headers.xfp, "HTTP")
        /\ RpcRule(ReqOf(conns[c]))
        /\ conns[c].handledBy = {"grpc_service"}

\* C3: a request that matches neither the Redirect rule nor the RPC rule is
\* given to the Web service.
C3_OtherwiseSelectsWeb ==
    \A c \in Conns :
        (IsSome(conns[c].req)
            /\ ~RedirectRule(ReqOf(conns[c]))
            /\ ~RpcRule(ReqOf(conns[c])))
            => conns[c].handledBy = {"http_service"}

\* a request whose content-type only starts with application/grpc was given
\* to the Web service
C3_Witness ==
    \E c \in Conns :
        /\ IsSome(conns[c].req)
        /\ FirstIs(ReqOf(conns[c]).headers.ct, "application/grpc+proto")
        /\ FirstIs(ReqOf(conns[c]).headers.xfp, "HTTP")
        /\ conns[c].handledBy = {"http_service"}

\* the picker yields an index of the service array for every request
PickerTotal == \A req \in AllRequests : Picker(req) \in DOMAIN services

\* C4: classification is total and exclusive: the picker yields an index of
\* the service array for every combination of the headers, and every request
\* that was read from a connection has been given to exactly one of the
\* three services.
C4_ExactlyOneService ==
    /\ PickerTotal
    /\ \A c \in Conns :
          IsSome(conns[c].req)
            => /\ Cardinality(conns[c].handledBy) = 1
               /\ conns[c].handledBy
                    \subseteq {"http_service", "grpc_service", "tls_redirect_service"}

\* two connections have requests in flight with two different services
C4_Witness ==
    \E c, d \in Conns :
        /\ conns[c].state = "busy"
        /\ conns[d].state = "busy"
        /\ conns[c].handledBy = {"http_service"}
        /\ conns[d].handledBy = {"tls_redirect_service"}

\* the Location the claim describes for the request of connection record k:
\* https, the Host value, the path and the query of the request URI
ExpectedLocation(k) ==
    LET req == ReqOf(k)
        pq == Unwrap(req.uri.path_and_query)
    IN <<"h", "t", "t", "p", "s", ":", "/", "/">>
       \o req.headers.host[1]
       \o pq.path
       \o (IF pq.query = <<>> THEN <<>> ELSE <<"?">> \o pq.query[1])

RedirectResponded(k) ==
    /\ IsSome(k.req)
    /\ k.handledBy = {"tls_redirect_service"}
    /\ IsSome(k.sent)

C6_MissingHostClientError ==
    \A c \in Conns :
        (IsSome(conns[c].req)
            /\ RedirectRule(ReqOf(conns[c]))
            /\ ReqOf(conns[c]).headers.host = <<>>
            /\ IsSome(conns[c].out))
            => /\ IsSome(conns[c].sent)
               /\ Unwrap(conns[c].sent).status \in 400..499

\* C7: once the shutdown signal has fired, the set of accepted connections
\* does not grow.
C7_NoAcceptAfterSignal ==
    [][triggers > 0 => accepted' \subseteq accepted]_vars

\* the signal has fired while a connection is open and the listener had
\* further connections to accept
C7_Witness ==
    /\ triggers > 0
    /\ phase = "Draining"
    /\ inFlight # {}
    /\ \E c \in Conns : conns[c].state = "none"

C9_SecondSignalNoOp ==
    [][(triggers >= 1 /\ triggers' = triggers + 1 /\ phase # "Stopped")
        => UNCHANGED <<store, conns, inbox, phase, signal, result>>]_vars

\* the signal has fired twice while the server drains a connection
C9_Witness ==
    /\ triggers = 2
    /\ phase = "Draining"
    /\ \E c \in Conns : conns[c].state = "busy"

\* the service of connection c returns an error in this step
FailsIn(c) ==
    /\ conns[c].state = "busy"
    /\ IsSome(conns'[c].out)
    /\ ~Unwrap(conns'[c].out).ok

\* C10: a step in which the service of one connection fails changes no other
\* connection and no pending request, and leaves the shutdown phase, the
\* signal and the result of make_server as they are (so the listener accepts
\* and the other connections are served as before).
C10_FailureConfined ==
    [][\A c \in Conns :
        FailsIn(c)
            => /\ \A d \in Conns \ {c} : conns'[d] = conns[d]
               /\ UNCHANGED <<inbox, phase, signal, result>>]_vars

\* one connection has failed, and another one, with a request in flight at
\* the same time, got its response afterwards; the server is still accepting
C10_Witness ==
    /\ phase = "Accepting"
    /\ signal = "pending"
    /\ result = "running"
    /\ \E c, d \in Conns :
          /\ c # d
          /\ IsSome(conns[c].out)
          /\ ~Unwrap(conns[c].out).ok
          /\ conns[c].state = "closed"
          /\ conns[d].state = "idle"
          /\ IsSome(conns[d].sent)

\* C11: once a handler has panicked on a request, a server-error response
\* (5xx) has been written for that request and its connection is still open.
C11_PanicBecomesServerError ==
    \A c \in Conns :
        (IsSome(conns[c].out) /\ conns[c].out = Some(Err("panic")))
            => /\ IsSome(conns[c].sent)
               /\ Unwrap(conns[c].sent).status \in 500..599
               /\ conns[c].state # "closed"

\* C12: a request whose x-forwarded-proto is present with a value other than
\* exactly "http" is not given to the Redirect service: it goes to the RPC
\* service if its content-type is "application/grpc", else to the Web service.
C12_RedirectRuleExactMatch ==
    \A c \in Conns :
        (IsSome(conns[c].req)
            /\ ReqOf(conns[c]).headers.xfp # <<>>
            /\ ReqOf(conns[c]).headers.xfp[1] # "http")
            => conns[c].handledBy =
                 IF RpcRule(ReqOf(conns[c]))
                 THEN {"grpc_service"} ELSE {"http_service"}

\* a request with x-forwarded-proto: https and no content-type was given to
\* the Web service
C12_Witness ==
    \E c \in Conns :
        /\ IsSome(conns[c].req)
        /\ FirstIs(ReqOf(conns[c]).headers.xfp, "https")
        /\ ReqOf(conns[c]).headers.ct = <<>>
        /\ conns[c].handledBy = {"http_service"}

\* C19: a request that is not selected for Redirect and whose content-type
\* is present but is not the whole value "application/grpc" (it only starts
\* with it, or is something else) is given to the Web service, not to the
\* RPC service.
C19_RpcRuleExactMatch ==
    \A c \in Conns :
        (IsSome(conns[c].req)
            /\ ~RedirectRule(ReqOf(conns[c]))
            /\ ReqOf(conns[c]).headers.ct # <<>>
            /\ ReqOf(conns[c]).headers.ct[1] # "application/grpc")
            => conns[c].handledBy = {"http_service"}

\* a request with content-type "application/grpc; charset=utf-8" and no
\* x-forwarded-proto was given to the Web service
C19_Witness ==
    \E c \in Conns :
        /\ IsSome(conns[c].req)
        /\ ReqOf(conns[c]).headers.xfp = <<>>
        /\ FirstIs(ReqOf(conns[c]).headers.ct, "application/grpc; charset=utf-8")
        /\ conns[c].handledBy = {"http_service"}

RedirectCannotBuild(req) ==
    \/ req.headers.host = <<>>
    \/ req.headers.host # <<>>
         /\ req.headers.host[1] \in {HostSlash, HostNonAscii, HostEmpty}
    \/ req.uri.path_and_query = <<>>

\* C14: when the Redirect service has answered a request whose redirect
\* target cannot be built, it has returned an error, no response (so no
\* redirect) has been written, and the server is still running and accepting.
C14_RedirectFailureIsRequestLevel ==
    \A c \in Conns :
        (IsSome(conns[c].req)
            /\ conns[c].handledBy = {"tls_redirect_service"}
            /\ RedirectCannotBuild(ReqOf(conns[c]))
            /\ IsSome(conns[c].out))
            => /\ ~Unwrap(conns[c].out).ok
               /\ conns[c].sent = None
               /\ phase = "Accepting"
               /\ result = "running"

\* the Redirect service has failed on a Host value that is no authority
C14_Witness ==
    \E c \in Conns :
        /\ IsSome(conns[c].req)
        /\ conns[c].handledBy = {"tls_redirect_service"}
        /\ FirstIs(ReqOf(conns[c]).headers.host, HostSlash)
        /\ ReqOf(conns[c]).uri = UriOriginQuery
        /\ IsSome(conns[c].out)
        /\ ~Unwrap(conns[c].out).ok
        /\ conns[c].sent = None

\* C15: once the shutdown signal has fired, if every connection in flight
\* comes to an end, the server eventually is Stopped and make_server has
\* returned Ok(()), also when connections fail while it drains.
C15_DrainTerminates ==
    (triggers > 0) ~> (phase = "Stopped" /\ result = "ok")

\* the server has stopped with Ok(()) although a connection failed; another
\* one was answered
C15_Witness ==
    /\ phase = "Stopped"
    /\ result = "ok"
    /\ \E c, d \in Conns :
          /\ IsSome(conns[c].out)
          /\ ~Unwrap(conns[c].out).ok
          /\ IsSome(conns[d].sent)

\* C16: when the bind has failed, make_server_bind has returned the error
\* and the server is not and never was Accepting: no connection has been
\* accepted and no request has been given to a service.
C16_BindFailureNeverAccepts ==
    (result = "err" \/ phase = "BindFailed")
        => /\ result = "err"
           /\ phase = "BindFailed"
           /\ \A c \in Conns : conns[c] = NoConn

\* the bind has failed, and the shutdown signal fired afterwards or before
C16_Witness ==
    /\ phase = "BindFailed"
    /\ result = "err"
    /\ triggers = MaxTriggers

\* C17: the session store changes only in a step in which the Web or the RPC
\* service ends its handling of a request; the step that classifies and
\* steers a request, the end of a request of the Redirect service, the firing
\* of the signal and the changes of phase leave it as it is.
C17_OnlyAdaptersChangeStore ==
    /\ [][store' # store
            => \E c \in Conns :
                  /\ conns[c].state = "busy"
                  /\ conns[c].handledBy \in {{"http_service"}, {"grpc_service"}}
                  /\ conns'[c].state # "busy"]_vars
    /\ [][(\/ phase' # phase
           \/ triggers' # triggers
           \/ \E c \in Conns : conns[c].state # "busy" /\ conns'[c].state = "busy"
           \/ \E c \in Conns :
                 /\ conns[c].state = "busy"
                 /\ conns[c].handledBy = {"tls_redirect_service"}
                 /\ conns'[c].state # "busy")
            => store' = store]_vars

\* the store has been written, a redirect has been answered and the server
\* has begun to drain
C17_Witness ==
    /\ store # {}
    /\ phase = "Draining"
    /\ \E c \in Conns :
          /\ conns[c].handledBy = {"tls_redirect_service"}
          /\ IsSome(conns[c].sent)

\* C18: the phase only moves forward, from Accepting to Draining and from
\* Draining to Stopped; Stopped is final; and the server leaves Accepting
\* only after the shutdown signal has fired.
C18_PhaseMovesForward ==
    /\ [][/\ phase = "Accepting" => phase' \in {"Accepting", "Draining"}
          /\ phase = "Draining" => phase' \in {"Draining", "Stopped"}
          /\ phase = "Stopped" => phase' = "Stopped"
          /\ (phase = "Accepting" /\ phase' # "Accepting") => triggers > 0]_vars
    /\ [](phase \in {"Draining", "Stopped"} => triggers > 0)

\* the server has gone through the three phases with a connection served
C18_Witness ==
    /\ phase = "Stopped"
    /\ triggers = 1
    /\ \E c \in Conns : IsSome(conns[c].sent)

====
